---- MODULE Spec2Model ----
(***************************************************************************)
(* VGA text-mode writer of os_in_rust: src/src/vga_driver.rs (VgaWriter,   *)
(* the VGA_WRITER spin lock, _print) and the callers in src/src/main.rs.   *)
(*                                                                         *)
(* The writer's fields are the variables col_pos, row_pos, color_code and  *)
(* chars (buffer.chars).  A contender calls _print with a formatted        *)
(* message; write_fmt hands the message to write_str piece by piece, and   *)
(* write_string consumes each piece byte by byte while the lock is held.   *)
(***************************************************************************)
EXTENDS Integers, Sequences, FiniteSets, TLC

(* ------------------------------------------------------------------ *)
(* Program constants                                                   *)
(* ------------------------------------------------------------------ *)
SCREEN_HEIGHT == 25
SCREEN_WIDTH == 80

NEWLINE == 10
PRINTABLE_LO == 32
PRINTABLE_HI == 126
UNSUPPORTED == 254

Black == 0
Yellow == 14

(* ------------------------------------------------------------------ *)
(* Bounds of the model                                                 *)
(* ------------------------------------------------------------------ *)
\* print calls issued in one run of the sequential specification
MaxCalls == 3
\* print calls issued in one run of the two-contender specification
MaxSharedCalls == 3
\* print calls issued in one run of the colour specification
MaxColorCalls == 1

Contenders == {1, 2}
NoHolder == 0

Rows == 0 .. (SCREEN_HEIGHT - 1)
Cols == 0 .. (SCREEN_WIDTH - 1)

(* ------------------------------------------------------------------ *)
(* ColorCode::new: (background as u8) << 4 | (foreground as u8)        *)
(* ------------------------------------------------------------------ *)
RECURSIVE BitOr(_, _)
BitOr(a, b) ==
    IF a = 0 THEN b
    ELSE IF b = 0 THEN a
    ELSE (IF (a % 2 = 1) \/ (b % 2 = 1) THEN 1 ELSE 0) + 2 * BitOr(a \div 2, b \div 2)

\* the two nibbles exchanged
ColorCode_new_swapped(foreground, background) ==
    BitOr((foreground * 16) % 256, background)

ColorCode_new(foreground, background) ==
    BitOr((background * 16) % 256, foreground)

(* ------------------------------------------------------------------ *)
(* Messages handed to _print                                           *)
(* ------------------------------------------------------------------ *)
Rep(b, n) == [i \in 1 .. n |-> b]

\* One piece of a formatted message: the text write_fmt passes to
\* write_str, or an argument whose formatting returns Err.
Str(s) == [ok |-> TRUE, s |-> s]
FmtErr == [ok |-> FALSE, s |-> <<>>]

\* print!(...): _print(format_args!(...)), the pieces as they are
print_macro(args) == args

\* println!(): print!("\n"); println!(...): print!("{}\n", format_args!(...))
println_macro(args) ==
    IF args = <<>>
    THEN print_macro(<<Str(<<NEWLINE>>)>>)
    ELSE print_macro(args \o <<Str(<<NEWLINE>>)>>)

Hi == <<72, 105, NEWLINE, 33>>
Hello == <<72, 101, 108, 108, 111>>

\* print!/println! invocations the contenders may issue
Messages ==
    { print_macro(<<Str(Hi)>>),                         \* print!("Hi\n!")
      println_macro(<<>>),                              \* println!()
      println_macro(<<Str(Hello), Str(<<50>>)>>),       \* println!("Hello{}", 2)
      print_macro(<<Str(Rep(65, SCREEN_WIDTH + 3))>>),  \* WIDTH + 3 times 'A'
      print_macro(<<Str(Rep(66, SCREEN_WIDTH))>>),      \* WIDTH times 'B'
      print_macro(<<Str(<<195, 169, 127, 9, 31>>)>>),   \* "e-acute", DEL, TAB, 0x1f
      print_macro(<<Str(Rep(NEWLINE, SCREEN_HEIGHT - 1))>>), \* HEIGHT - 1 newlines
      print_macro(<<Str(<<67>>), FmtErr>>) }            \* print!("C{}", x), x fails

\* the message of the panic handler of main.rs: println!("{}", info)
PanicMessage == println_macro(<<Str(<<112, 97, 110, 105, 99>>)>>)

SharedMessages ==
    { print_macro(<<Str(Hi)>>),
      println_macro(<<Str(<<88, 89>>)>>),
      print_macro(<<Str(<<195, 169>>)>>) }

(* ------------------------------------------------------------------ *)
(* State                                                               *)
(* ------------------------------------------------------------------ *)
VARIABLES
    col_pos,     \* VgaWriter.col_pos
    row_pos,     \* VgaWriter.row_pos
    color_code,  \* VgaWriter.color_code
    chars,       \* VgaWriter.buffer.chars: [row][col] -> ScreenChar
    lock,        \* holder of the VGA_WRITER spin::Mutex, NoHolder when free
    once,        \* lazy_static's Once: "INCOMPLETE", "RUNNING", "COMPLETE"
    pc,          \* per contender: "idle", "spin", "init", "fmt", "panic"
    pending,     \* per contender: pieces of its message not yet written
    panic_info,  \* per contender: message of the panic it raised
    ncalls,      \* number of _print calls issued so far
    issued,      \* history: per contender, the messages it has printed
    order,       \* history: <<contender, message>> per lock acquisition
    written,     \* history: cells stored to since construction
    last,        \* history: the last byte consumed by write_string
    call,        \* history: the current (or last) write_string call
    ctor,        \* history: the colours given to ColorCode::new
    nconstructed,\* history: number of times the writer was constructed
    acq,         \* history: the writer as the last lock holder found it
    left         \* history: the cursor as the last lock holder left it

writer == <<col_pos, row_pos, color_code, chars>>
hist == <<ctor, nconstructed, acq, left>>
vars == <<col_pos, row_pos, color_code, chars, lock, once, pc, pending,
          panic_info, ncalls, issued, order, written, last, call, hist>>

\* the two fields of ScreenChar taken for each other
ScreenChar_swapped(ascii_char, cc) == [ascii_char |-> cc, color_code |-> ascii_char]

ScreenChar(ascii_char, cc) == [ascii_char |-> ascii_char, color_code |-> cc]

\* Content of the display memory before the program writes to it: a blank
\* left by the firmware (the program never clears the screen).
FirmwareCell == ScreenChar(32, 7)

(* ------------------------------------------------------------------ *)
(* VgaWriter, as a value: the fields, whether an index fell outside    *)
(* the grid (Rust's bounds check panics), and the cells stored to.     *)
(* ------------------------------------------------------------------ *)
Self ==
    [col_pos |-> col_pos, row_pos |-> row_pos, color_code |-> color_code,
     chars |-> chars, panicked |-> FALSE, stores |-> <<>>]

\* new_line with the column advanced instead of reset
new_line_col_slip(w) ==
    [w EXCEPT !.row_pos = @ + 1, !.col_pos = @ + 1]

\* new_line that only returns the carriage, the row left as it is
new_line_same_row(w) ==
    [w EXCEPT !.col_pos = 0]

\* new_line that goes back to the top row after the last one
new_line_wrap_top(w) ==
    [w EXCEPT !.row_pos = (@ + 1) % SCREEN_HEIGHT, !.col_pos = 0]

\* fn new_line(&mut self)
new_line(w) ==
    [w EXCEPT !.row_pos = @ + 1, !.col_pos = 0]

\* fn write_byte(&mut self, text_as_byte: u8)
\* buffer.chars[row][col] is a checked index into [[_; 80]; 25]: it
\* panics before anything is stored when row or col is out of range.
write_byte(w, text_as_byte) ==
    IF w.panicked THEN w
    ELSE IF text_as_byte = NEWLINE THEN new_line(w)
    ELSE LET w1 == IF w.col_pos >= SCREEN_WIDTH THEN new_line(w) ELSE w
             row == w1.row_pos
             col == w1.col_pos
         IN  IF row \notin Rows \/ col \notin Cols
             THEN [w1 EXCEPT !.panicked = TRUE]
             ELSE [w1 EXCEPT
                     !.chars[row][col] = ScreenChar(text_as_byte, w1.color_code),
                     !.col_pos = @ + 1,
                     !.stores = Append(@, <<row, col>>)]

\* the match of write_string without its fallback arm
Sanitize_passthrough(byte) == byte

\* the match of write_string without b'\n' in its first arm
Sanitize_no_newline(byte) ==
    IF byte \in PRINTABLE_LO .. PRINTABLE_HI THEN byte ELSE UNSUPPORTED

\* the match of write_string: 0x20..=0x7e | b'\n' => byte, _ => 0xfe
Sanitize(byte) ==
    IF byte \in PRINTABLE_LO .. PRINTABLE_HI \/ byte = NEWLINE
    THEN byte
    ELSE UNSUPPORTED

\* one iteration of the loop of write_string
write_string_byte(w, byte) == write_byte(w, Sanitize(byte))

\* pub fn write_string(&mut self, string: &str)
RECURSIVE write_string(_, _)
write_string(w, string) ==
    IF string = <<>> \/ w.panicked THEN w
    ELSE write_string(write_string_byte(w, Head(string)), Tail(string))

(* ------------------------------------------------------------------ *)
(* Initial state: VGA_WRITER as constructed, no call issued yet        *)
(* ------------------------------------------------------------------ *)
NoCall ==
    [s |-> <<>>, n |-> 0, done |-> TRUE, failed |-> FALSE,
     row |-> 0, col |-> 0, chars |-> <<>>, stores |-> <<>>]
NoByte ==
    [byte |-> -1, by |-> 0, row |-> 0, col |-> 0, stores |-> <<>>,
     failed |-> FALSE]

\* pub enum Color
Color == 0 .. 15

\* lazy_static! VGA_WRITER: the writer as constructed
VGA_WRITER ==
    [col_pos |-> 0, row_pos |-> 0,
     color_code |-> ColorCode_new(Yellow, Black),
     chars |-> [r \in Rows |-> [c \in Cols |-> FirmwareCell]],
     panicked |-> FALSE, stores |-> <<>>]

\* the initializer of VGA_WRITER, run with the colours colors
Constructed(colors) ==
    [VGA_WRITER EXCEPT
       !.color_code = ColorCode_new(colors.foreground, colors.background)]

\* The storage of the static before its initializer has run: nothing
\* reads it until the Once is COMPLETE.  buffer is a reference to the
\* display memory, which holds what the firmware left there.
InitWith(colors) ==
    /\ col_pos = 0
    /\ row_pos = 0
    /\ color_code = 0
    /\ chars = VGA_WRITER.chars
    /\ lock = NoHolder
    /\ once = "INCOMPLETE"
    /\ pc = [c \in Contenders |-> "idle"]
    /\ pending = [c \in Contenders |-> <<>>]
    /\ panic_info = [c \in Contenders |-> "none"]
    /\ ncalls = 0
    /\ issued = [c \in Contenders |-> <<>>]
    /\ order = <<>>
    /\ written = {}
    /\ last = NoByte
    /\ call = NoCall
    /\ ctor = colors
    /\ nconstructed = 0
    /\ acq = VGA_WRITER
    /\ left = <<0, 0>>

Init == InitWith([foreground |-> Yellow, background |-> Black])

(* ------------------------------------------------------------------ *)
(* _print(args): VGA_WRITER.lock().write_fmt(args).unwrap()            *)
(* ------------------------------------------------------------------ *)
\* a contender enters _print with the message args
EnterPrint(c, args, max) ==
    /\ pc[c] = "idle"
    /\ ncalls < max
    /\ pc' = [pc EXCEPT ![c] = "spin"]
    /\ pending' = [pending EXCEPT ![c] = args]
    /\ ncalls' = ncalls + 1
    /\ issued' = [issued EXCEPT ![c] = Append(@, args)]
    /\ UNCHANGED <<writer, lock, once, panic_info, order, written, last, call, hist>>

\* an initialisation check that is not one atomic compare-exchange
CanConstruct_racy(c) == once # "COMPLETE"

\* Once::call_once: the compare-exchange INCOMPLETE -> RUNNING lets one
\* caller run the initializer
CanConstruct(c) == once = "INCOMPLETE"

\* first dereference of VGA_WRITER: this contender is to construct it
OnceBegin(c) ==
    /\ pc[c] = "spin"
    /\ CanConstruct(c)
    /\ once' = "RUNNING"
    /\ pc' = [pc EXCEPT ![c] = "init"]
    /\ UNCHANGED <<writer, lock, pending, panic_info, ncalls, issued, order,
                   written, last, call, hist>>

\* the initializer: VgaWriter { col_pos: 0, row_pos: 0, color_code, buffer }
OnceFinish(c) ==
    /\ pc[c] = "init"
    /\ col_pos' = Constructed(ctor).col_pos
    /\ row_pos' = Constructed(ctor).row_pos
    /\ color_code' = Constructed(ctor).color_code
    /\ once' = "COMPLETE"
    /\ pc' = [pc EXCEPT ![c] = "spin"]
    /\ nconstructed' = nconstructed + 1
    /\ left' = <<Constructed(ctor).row_pos, Constructed(ctor).col_pos>>
    /\ UNCHANGED <<chars, lock, pending, panic_info, ncalls, issued, order,
                   written, last, call, ctor, acq>>

\* a lock that excludes nobody
CanAcquire_unguarded(c) == TRUE

\* a lock that its holder may take again
CanAcquire_reentrant(c) == lock = NoHolder \/ lock = c

\* a lock that is taken over from a holder that has panicked
CanAcquire_steal(c) ==
    lock = NoHolder \/ (lock \in Contenders /\ panic_info[lock] # "none")

\* spin::Mutex::lock succeeds only while nobody holds the lock
CanAcquire(c) == lock = NoHolder

\* a guard dropped at once, as by `let _ = VGA_WRITER.lock();`
Guard_dropped(c) == NoHolder

\* the MutexGuard is a temporary of the statement: it keeps the lock
\* for c until the statement ends
Guard(c) == c

\* VGA_WRITER.lock(): the dereference needs the Once COMPLETE, the lock
\* is taken when it is free; otherwise the contender keeps spinning
Acquire(c) ==
    /\ pc[c] = "spin"
    /\ once = "COMPLETE"
    /\ CanAcquire(c)
    /\ lock' = Guard(c)
    /\ pc' = [pc EXCEPT ![c] = "fmt"]
    /\ order' = Append(order, <<c, pending[c]>>)
    /\ acq' = Self
    /\ UNCHANGED <<writer, once, pending, panic_info, ncalls, issued, written,
                   last, call, ctor, nconstructed, left>>

\* write_fmt -> write_str -> write_string: one byte of the current piece
WriteStr(c) ==
    /\ pc[c] = "fmt"
    /\ pending[c] # <<>>
    /\ Head(pending[c]).ok
    /\ LET piece == Head(pending[c]).s
           byte == Head(piece)
           rest == Tail(piece)
           w == write_string_byte(Self, byte)
       IN  /\ col_pos' = w.col_pos
           /\ row_pos' = w.row_pos
           /\ color_code' = w.color_code
           /\ chars' = w.chars
           /\ written' = written \cup {w.stores[i] : i \in DOMAIN w.stores}
           /\ last' = [byte |-> byte, by |-> c, row |-> row_pos, col |-> col_pos,
                       stores |-> w.stores, failed |-> w.panicked]
           /\ call' = IF call.done
                      THEN [s |-> piece, n |-> 1, done |-> rest = <<>> /\ ~w.panicked,
                            failed |-> w.panicked,
                            row |-> row_pos, col |-> col_pos, chars |-> chars,
                            stores |-> w.stores]
                      ELSE [call EXCEPT !.n = @ + 1,
                                        !.done = rest = <<>> /\ ~w.panicked,
                                        !.failed = w.panicked,
                                        !.stores = @ \o w.stores]
           /\ IF w.panicked
              THEN /\ pc' = [pc EXCEPT ![c] = "panic"]
                   /\ panic_info' = [panic_info EXCEPT ![c] = "index out of bounds"]
                   /\ UNCHANGED pending
              ELSE /\ pending' = [pending EXCEPT ![c] =
                         IF rest = <<>> THEN Tail(@) ELSE <<Str(rest)>> \o Tail(@)]
                   /\ UNCHANGED <<pc, panic_info>>
    /\ UNCHANGED <<lock, once, ncalls, issued, order, hist>>

\* an argument's formatting returns Err: write_fmt returns Err and
\* unwrap() panics while the guard returned by lock() is still alive
FmtError(c) ==
    /\ pc[c] = "fmt"
    /\ pending[c] # <<>>
    /\ ~Head(pending[c]).ok
    /\ pc' = [pc EXCEPT ![c] = "panic"]
    /\ panic_info' = [panic_info EXCEPT ![c] = "unwrap on Err"]
    /\ UNCHANGED <<writer, lock, once, pending, ncalls, issued, order, written,
                   last, call, hist>>

\* write_fmt returned Ok: the statement ends and the guard is dropped
Release(c) ==
    /\ pc[c] = "fmt"
    /\ pending[c] = <<>>
    /\ lock' = NoHolder
    /\ pc' = [pc EXCEPT ![c] = "idle"]
    /\ left' = <<row_pos, col_pos>>
    /\ UNCHANGED <<writer, once, pending, panic_info, ncalls, issued, order,
                   written, last, call, ctor, nconstructed, acq>>

\* fn panic(info) of main.rs (not(test)): println!("{}", info); loop {}
\* The handler runs on the panicking context, nothing is unwound, and
\* its println! enters _print again.
PanicHandler(c) ==
    /\ pc[c] = "panic"
    /\ pc' = [pc EXCEPT ![c] = "spin"]
    /\ pending' = [pending EXCEPT ![c] = PanicMessage]
    /\ UNCHANGED <<writer, lock, once, panic_info, ncalls, issued, order,
                   written, last, call, hist>>

(* ------------------------------------------------------------------ *)
(* Specifications                                                      *)
(* ------------------------------------------------------------------ *)
\* one execution context issuing print calls
Next ==
    \/ \E args \in Messages : EnterPrint(1, args, MaxCalls)
    \/ OnceBegin(1)
    \/ OnceFinish(1)
    \/ Acquire(1)
    \/ WriteStr(1)
    \/ FmtError(1)
    \/ Release(1)
    \/ PanicHandler(1)

Spec == Init /\ [][Next]_vars

\* two execution contexts contending for VGA_WRITER
NextShared ==
    \E c \in Contenders :
        \/ \E args \in SharedMessages \cup {<<Str(<<67>>), FmtErr>>} :
               EnterPrint(c, args, MaxSharedCalls)
        \/ OnceBegin(c)
        \/ OnceFinish(c)
        \/ Acquire(c)
        \/ WriteStr(c)
        \/ FmtError(c)
        \/ Release(c)
        \/ PanicHandler(c)

SpecShared == Init /\ [][NextShared]_vars

\* ColorCode::new applied to every pair of colours: the writer is
\* constructed with the pair and one message is printed with it
InitColor ==
    \E fg \in Color, bg \in Color :
        InitWith([foreground |-> fg, background |-> bg])

NextColor ==
    \/ EnterPrint(1, print_macro(<<Str(Hi)>>), MaxColorCalls)
    \/ OnceBegin(1)
    \/ OnceFinish(1)
    \/ Acquire(1)
    \/ WriteStr(1)
    \/ Release(1)

SpecColor == InitColor /\ [][NextColor]_vars

(* ------------------------------------------------------------------ *)
(* Serial reference: the calls executed one at a time                  *)
(* ------------------------------------------------------------------ *)
\* fmt::Write::write_fmt over impl fmt::Write for VgaWriter: write_str
\* per piece, Err as soon as an argument fails to format
RECURSIVE write_fmt(_, _)
write_fmt(w, args) ==
    IF args = <<>> \/ w.panicked THEN w
    ELSE IF ~Head(args).ok THEN [w EXCEPT !.panicked = TRUE]
    ELSE write_fmt(write_string(w, Head(args).s), Tail(args))

RECURSIVE Serial(_, _)
Serial(w, calls) ==
    IF calls = <<>> THEN w
    ELSE Serial(write_fmt(w, Head(calls)[2]), Tail(calls))

CallsOf(c, calls) ==
    LET keep(e) == e[1] = c
        msgs == SelectSeq(calls, keep)
    IN  [i \in 1 .. Len(msgs) |-> msgs[i][2]]

Quiescent == \A c \in Contenders : pc[c] = "idle"

Printable == PRINTABLE_LO .. PRINTABLE_HI

(* ------------------------------------------------------------------ *)
(* Claims                                                              *)
(* ------------------------------------------------------------------ *)

\* C1: in every reachable state the row position is inside the grid,
\* 0 <= row_pos < SCREEN_HEIGHT.
C1_RowInGrid == row_pos \in 0 .. (SCREEN_HEIGHT - 1)

\* C2: write_string never fails: no call panics on a cell index outside
\* the 25x80 grid, whatever bytes it is given and whatever state it
\* starts from.
C2_WriteStringTotal ==
    /\ ~last.failed
    /\ \A c \in Contenders : panic_info[c] # "index out of bounds"

\* C3: once every issued print call has returned, the Surface and the
\* cursor are those of running the calls one at a time in the order of
\* the lock acquisitions, and that order keeps each contender's own
\* call order.
C3_Serializable ==
    (Quiescent /\ once = "COMPLETE") =>
        LET w == Serial(VGA_WRITER, order)
        IN  /\ ~w.panicked
            /\ chars = w.chars
            /\ col_pos = w.col_pos
            /\ row_pos = w.row_pos
            /\ color_code = w.color_code
            /\ \A c \in Contenders : CallsOf(c, order) = issued[c]

\* C3 witness: both contenders have printed and all their calls returned.
C3_Witness ==
    /\ Quiescent
    /\ ncalls = MaxSharedCalls
    /\ \A c \in Contenders : issued[c] # <<>>
    /\ chars = Serial(VGA_WRITER, order).chars
    /\ written # {}

\* C4: _print releases the lock on every exit path: a contender holds
\* the lock only while it is inside write_fmt, so whenever no _print
\* call is in progress the lock is free.
C4_LockFreeOutsidePrint ==
    \A c \in Contenders : lock = c => pc[c] = "fmt"

\* C5: in every reachable state the column position satisfies
\* 0 <= col_pos <= SCREEN_WIDTH.
C5_ColInRange == col_pos \in 0 .. SCREEN_WIDTH

\* C5 witness: a row has been filled to its last column, col_pos at the
\* upper end of the range.
C5_Witness ==
    /\ col_pos = SCREEN_WIDTH
    /\ last.stores = <<<<row_pos, SCREEN_WIDTH - 1>>>>

\* the write_string call that began last has ended, by returning or by
\* a panic
CallEnded == call.n > 0 /\ (call.done \/ call.failed)

NoNewline(s) == \A i \in DOMAIN s : s[i] # NEWLINE

\* C6: a byte outside 0x20..0x7E that is not newline is stored as the
\* sentinel 0xFE, never as itself; every cell written so far holds a
\* printable ASCII byte or 0xFE, and never the newline byte.
C6_Sentinel ==
    /\ \A p \in written :
          /\ chars[p[1]][p[2]].ascii_char \in Printable \cup {UNSUPPORTED}
          /\ chars[p[1]][p[2]].ascii_char # NEWLINE
    /\ (last.byte \notin Printable /\ last.byte # NEWLINE) =>
          \A i \in DOMAIN last.stores :
              LET cell == chars[last.stores[i][1]][last.stores[i][2]]
              IN  cell.ascii_char = UNSUPPORTED /\ cell.ascii_char # last.byte

\* C6 witness: a byte of a multi-byte UTF-8 character has just been
\* stored as 0xFE.
C6_Witness ==
    /\ last.byte = 195
    /\ Len(last.stores) = 1
    /\ chars[last.stores[1][1]][last.stores[1][2]].ascii_char = UNSUPPORTED

\* C7: writing the newline byte changes no cell and not the colour;
\* afterwards col_pos = 0 and row_pos is one more than before.
C7_NewlineEffect ==
    [][(last' # last /\ last'.byte = NEWLINE) =>
          /\ chars' = chars
          /\ color_code' = color_code
          /\ col_pos' = 0
          /\ row_pos' = row_pos + 1]_vars

\* C7 witness: a newline has just been written from the middle of a row.
C7_Witness ==
    /\ last.byte = NEWLINE
    /\ last.col > 0
    /\ col_pos = 0
    /\ row_pos = last.row + 1
    /\ last.stores = <<>>

\* C8: write_byte(b), b not newline, starts a new line first if col_pos
\* has reached SCREEN_WIDTH, then writes exactly one cell, at the cursor
\* current after that step, with character b and the current colour,
\* leaves every other cell unchanged and increments col_pos.
C8_WriteByteEffect ==
    [][(last' # last /\ Sanitize(last'.byte) # NEWLINE) =>
          LET b == Sanitize(last'.byte)
              wrap == col_pos >= SCREEN_WIDTH
              r == IF wrap THEN row_pos + 1 ELSE row_pos
              c == IF wrap THEN 0 ELSE col_pos
          IN  /\ ~last'.failed
              /\ last'.stores = <<<<r, c>>>>
              /\ r \in Rows /\ c \in Cols
              /\ chars' = [chars EXCEPT ![r][c] = ScreenChar(b, color_code)]
              /\ row_pos' = r
              /\ col_pos' = c + 1]_vars

\* C9: a newline-free sequence longer than SCREEN_WIDTH - col_pos wraps:
\* byte i lands in the cell i places after the starting cursor in
\* row-major order, no byte is dropped, no cell beyond column
\* SCREEN_WIDTH - 1 is written; SCREEN_WIDTH + 3 bytes 'A' on a fresh
\* writer end with the cursor at (1, 3).
C9_WrapKeepsEveryByte ==
    (CallEnded /\ NoNewline(call.s) /\ Len(call.s) > SCREEN_WIDTH - call.col) =>
        LET n == Len(call.s)
            k(i) == call.col + i - 1
            r(i) == call.row + (k(i) \div SCREEN_WIDTH)
            c(i) == k(i) % SCREEN_WIDTH
        IN  /\ ~call.failed
            /\ \A i \in 1 .. n :
                  /\ r(i) \in Rows
                  /\ <<r(i), c(i)>> \in written
                  /\ chars[r(i)][c(i)].ascii_char = Sanitize(call.s[i])
            /\ \A p \in written : p[2] <= SCREEN_WIDTH - 1
            /\ row_pos = r(n)
            /\ col_pos = c(n) + 1
            /\ (call.row = 0 /\ call.col = 0 /\ call.s = Rep(65, SCREEN_WIDTH + 3)) =>
                  (row_pos = 1 /\ col_pos = 3)

\* C10: write_string(s) for printable, newline-free s with
\* Len(s) <= SCREEN_WIDTH, from cursor (row, 0), stores s[i] at
\* (row, i) with the writer's colour, changes no other cell and leaves
\* the cursor at (row, Len(s)).
C10_LineStored ==
    (/\ CallEnded
     /\ call.col = 0
     /\ Len(call.s) <= SCREEN_WIDTH
     /\ \A i \in DOMAIN call.s : call.s[i] \in Printable) =>
        /\ ~call.failed
        /\ call.row \in Rows
        /\ chars = [call.chars EXCEPT ![call.row] =
                      [c \in Cols |->
                          IF c < Len(call.s)
                          THEN ScreenChar(call.s[c + 1], color_code)
                          ELSE @[c]]]
        /\ row_pos = call.row
        /\ col_pos = Len(call.s)

\* number of cells of row r that the write_string call stored to
StoredInRow(r) ==
    Cardinality({i \in DOMAIN call.stores : call.stores[i][1] = r})

\* C11: a newline-free sequence that exactly fills the remaining
\* columns of the row ends with col_pos = SCREEN_WIDTH and row_pos
\* unchanged, and one call stores to at most SCREEN_WIDTH cells of any
\* one row.
C11_ExactFill ==
    /\ (/\ CallEnded
        /\ NoNewline(call.s)
        /\ Len(call.s) = SCREEN_WIDTH - call.col) =>
           /\ ~call.failed
           /\ col_pos = SCREEN_WIDTH
           /\ row_pos = call.row
    /\ \A r \in Rows : StoredInRow(r) <= SCREEN_WIDTH

\* the first print call on the fresh writer is print!("Hi\n!")
FreshHi ==
    /\ Len(order) = 1
    /\ order[1][2] = print_macro(<<Str(Hi)>>)
    /\ call.s = Hi
    /\ acq = VGA_WRITER

\* C12 as stated: on a fresh writer with colour (Yellow, Black),
\* "Hi\n!" stores 'H' at (0,0) and 'i' at (0,1) with attribute byte
\* 0xE0, moves to (1,0), stores '!' at (1,0) and ends at (1,1).
C12_HiScenario_E0 ==
    /\ (FreshHi /\ call.n >= 2) =>
           /\ chars[0][0] = ScreenChar(72, 224)
           /\ chars[0][1] = ScreenChar(105, 224)
    /\ (FreshHi /\ call.n = 3) => (row_pos = 1 /\ col_pos = 0)
    /\ (FreshHi /\ call.n = 4) =>
           /\ chars[1][0].ascii_char = 33
           /\ row_pos = 1 /\ col_pos = 1

\* C12 amended: the same scenario with attribute byte 0x0E (Yellow in
\* the low nibble, Black in the high nibble), every other cell left as
\* it was.
C12_HiScenario ==
    /\ (FreshHi /\ call.n >= 2) =>
           /\ chars[0][0] = ScreenChar(72, 14)
           /\ chars[0][1] = ScreenChar(105, 14)
    /\ (FreshHi /\ call.n = 3) =>
           /\ row_pos = 1 /\ col_pos = 0
           /\ written = {<<0, 0>>, <<0, 1>>}
    /\ (FreshHi /\ call.n = 4) =>
           /\ chars[1][0] = ScreenChar(33, 14)
           /\ row_pos = 1 /\ col_pos = 1
           /\ written = {<<0, 0>>, <<0, 1>>, <<1, 0>>}
           /\ \A r \in Rows, c \in Cols :
                 <<r, c>> \notin written => chars[r][c] = VGA_WRITER.chars[r][c]

\* C12 witness: "Hi\n!" has been written to the fresh writer.
C12_Witness ==
    /\ FreshHi
    /\ call.done
    /\ call.n = 4
    /\ color_code = 14
    /\ chars[1][0].ascii_char = 33

\* C13: ColorCode::new(foreground, background) is one byte with the
\* foreground code in bits 0-3 and the background code in bits 4-7,
\* background * 16 + foreground, and distinct pairs give distinct bytes.
C13_ColorCode ==
    once = "COMPLETE" =>
        /\ color_code \in 0 .. 255
        /\ color_code % 16 = ctor.foreground
        /\ color_code \div 16 = ctor.background
        /\ color_code = ctor.background * 16 + ctor.foreground
        /\ \A fg \in Color, bg \in Color :
              ColorCode_new(fg, bg) = color_code =>
                  (fg = ctor.foreground /\ bg = ctor.background)
        /\ \A p \in written : chars[p[1]][p[2]].color_code = color_code

\* C13 witness: a cell written with LightGray on Red, attribute 0x47.
C13_Witness ==
    /\ ctor = [foreground |-> 7, background |-> 4]
    /\ color_code = 71
    /\ written # {}
    /\ chars[0][0] = ScreenChar(72, 71)

\* c waits for the lock and its holder will not release it: the holder
\* has left write_fmt by a panic (it may be c itself, in its handler)
Stuck(c) ==
    /\ pc[c] = "spin"
    /\ once = "COMPLETE"
    /\ lock \in Contenders
    /\ pc[lock] # "fmt"

\* C14: a context that tries to take the lock while it is held and will
\* not be released keeps spinning: it never gets the lock, the lock
\* stays with its holder, and no further cell is written.
C14_SpinsForever ==
    [][\A c \in Contenders :
          Stuck(c) =>
              /\ pc'[c] = "spin"
              /\ lock' = lock
              /\ pc'[lock] # "fmt"
              /\ chars' = chars
              /\ written' = written
              /\ row_pos' = row_pos /\ col_pos' = col_pos]_vars

\* C14 witness: contender 1 panicked holding the lock and spins in its
\* handler on its own lock, contender 2 spins on it as well.
C14_Witness ==
    /\ lock = 1
    /\ Stuck(1)
    /\ Stuck(2)
    /\ pending[1] = PanicMessage

\* arguments of the println! invocations among the messages
PrintlnArgs == {<<>>, <<Str(Hello), Str(<<50>>)>>, <<Str(<<88, 89>>)>>}

\* the print call of c that took the lock last has produced all its
\* output, or has panicked on a cell index
OutputEnded(c) ==
    /\ order # <<>>
    /\ order[Len(order)][1] = c
    /\ \/ pc[c] = "fmt" /\ pending[c] = <<>>
       \/ panic_info[c] = "index out of bounds"

\* C15: println!(args) leaves the Surface and the cursor that
\* print!(args) followed by one newline byte leaves from the same
\* writer state; println!() leaves what one newline byte leaves.
C15_PrintlnIsPrintThenNewline ==
    \A c \in Contenders, a \in PrintlnArgs :
        (OutputEnded(c) /\ order[Len(order)][2] = println_macro(a)) =>
            LET ref == write_byte(write_fmt(acq, print_macro(a)), NEWLINE)
            IN  /\ chars = ref.chars
                /\ col_pos = ref.col_pos
                /\ row_pos = ref.row_pos
                /\ ref.panicked <=> (panic_info[c] # "none")
                /\ a = <<>> =>
                      /\ chars = acq.chars
                      /\ col_pos = 0
                      /\ row_pos = acq.row_pos + 1

\* C15 witness: println!("Hello{}", 2) has written its text and its
\* newline from the middle of a row.
C15_Witness ==
    /\ OutputEnded(1)
    /\ pc[1] = "fmt"
    /\ order[Len(order)][2] = println_macro(<<Str(Hello), Str(<<50>>)>>)
    /\ acq.col_pos > 0
    /\ col_pos = 0
    /\ row_pos = acq.row_pos + 1

C17_HandlerSpins ==
    [][\A c \in Contenders :
          panic_info[c] # "none" =>
              /\ lock = c /\ lock' = c
              /\ pc'[c] \in {"panic", "spin"}
              /\ panic_info'[c] = panic_info[c]
              /\ chars' = chars
              /\ written' = written
              /\ row_pos' = row_pos /\ col_pos' = col_pos]_vars

\* C17 witness: the handler of an index panic at row 25 spins in its
\* println! on the lock its own context holds.
C17_Witness ==
    /\ panic_info[1] = "index out of bounds"
    /\ row_pos = SCREEN_HEIGHT
    /\ pc[1] = "spin"
    /\ pending[1] = PanicMessage
    /\ lock = 1

\* the acquisitions of c are its invocations, one each, whole messages
AcquiredOnce(c) ==
    LET waiting == pc[c] \in {"spin", "init"} /\ panic_info[c] = "none"
        n == Len(issued[c]) - (IF waiting THEN 1 ELSE 0)
    IN  CallsOf(c, order) = SubSeq(issued[c], 1, n)

\* C18: every print!/println! invocation takes the lock once for all
\* of its output, the newline of println! included: each byte written
\* belongs to the latest acquisition and is written by the lock holder,
\* and the lock is given up only when the whole message is out.
C18_OneAcquisitionPerCall ==
    [][/\ \A c \in Contenders : AcquiredOnce(c)'
       /\ last' # last =>
             /\ order # <<>>
             /\ last'.by = order[Len(order)][1]
             /\ lock = last'.by
       /\ \A c \in Contenders :
             (pc[c] = "fmt" /\ pc'[c] = "idle") => pending[c] = <<>>]_vars

\* C18 witness: contender 1 has written the newline of its println!
\* while contender 2, which held the lock before, waits for it.
C18_Witness ==
    /\ Len(order) = 2
    /\ order[1][1] = 2
    /\ order[2] = <<1, println_macro(<<Str(<<88, 89>>)>>)>>
    /\ pc[1] = "fmt" /\ pending[1] = <<>>
    /\ pc[2] = "spin"
    /\ last.by = 1 /\ last.byte = NEWLINE

\* C19: the cursor never moves backwards (row_pos never decreases,
\* col_pos decreases only when row_pos increases), every byte is stored
\* in a cell no earlier write stored to, and no written cell changes.
C19_NeverBackwards ==
    [][/\ row_pos' >= row_pos
       /\ col_pos' < col_pos => row_pos' > row_pos
       /\ last' # last =>
             \A i \in DOMAIN last'.stores : last'.stores[i] \notin written
       /\ \A p \in written : chars'[p[1]][p[2]] = chars[p[1]][p[2]]]_vars

\* C19 witness: a byte written at the end of a full row has gone to
\* column 0 of the next row.
C19_Witness ==
    /\ last.col = SCREEN_WIDTH
    /\ last.stores = <<<<last.row + 1, 0>>>>
    /\ row_pos = last.row + 1
    /\ col_pos = 1

\* C20: after construction the colour never changes: color_code is the
\* encoding of (Yellow, Black), 0x0E, and every cell written carries it.
C20_ColourFixed ==
    once = "COMPLETE" =>
        /\ color_code = ColorCode_new(Yellow, Black)
        /\ color_code = Black * 16 + Yellow
        /\ \A p \in written : chars[p[1]][p[2]].color_code = color_code

\* C20 witness: cells of several rows have been written, the colour is
\* still Yellow on Black.
C20_Witness ==
    /\ color_code = Black * 16 + Yellow
    /\ \E p \in written, q \in written : p[1] # q[1]
    /\ ncalls = MaxCalls

====
